---- MODULE Spec2Model ----
(***************************************************************************)
(* A model of tonjun/gostore: the store facade (store), the scalar engine  *)
(* (kvStore) with its expiry sweep, and the list engine (listStore).       *)
(*                                                                         *)
(* Every goroutine is a process of the model: the callers, the two worker  *)
(* loops, the goroutine running Close, and the delItem goroutines started  *)
(* by a sweep.  All channels are unbuffered, so a send and its receive are *)
(* one step ("accept"); what the worker does with the request afterwards   *)
(* is a later step, taken before the worker is back at its select.         *)
(*                                                                         *)
(* Time is counted in sweep intervals of 500ms, two to the second.         *)
(* The 3 second send timeout of the callers is taken to fire only when the *)
(* worker has returned from its loop: a live worker at its select receives *)
(* a pending request at once.                                              *)
(*                                                                         *)
(* kvStore.itemExpireCb is written by the callers and read by the worker   *)
(* with nothing to order the two.  A read by the worker returns the value  *)
(* written last or any value written before it, until the worker receives  *)
(* a request from the caller that wrote last.  listStore.listChangeCb is   *)
(* written by the callers and read by nobody.                              *)
(***************************************************************************)
EXTENDS Integers, Sequences, FiniteSets, TLC

\* ---------------------------------------------------------------- bounds
Callers == {"c1", "c2"}
MaxOps == 3
MaxTime == 5
MaxBg == 1
MaxCb == 1

\* ------------------------------------------------------- program constants
TicksPerSec == 2
SweepInterval == 1

\* --------------------------------------------------------------- inputs
StartTime == 3
Keys == {"k1", "k2"}
CallerIds == [c \in Callers |-> IF c = "c1" THEN {"a"} ELSE {"b"}]
Values == {"x"}
ListValues == {"x", "y"}
Ttls == {0, 1, 2}
ListKeys == {"one", "two"}
ListIds == {"a", "b", "c"}
Cbs == {"cb1"}

StrOrd ==
  [s \in {"", "a", "b", "c", "k1", "k2", "one", "two"} |->
     CASE s = "" -> 0 [] s = "a" -> 1 [] s = "b" -> 2 [] s = "c" -> 3
       [] s = "k1" -> 4 [] s = "k2" -> 5 [] s = "one" -> 6 [] s = "two" -> 7]

\* --------------------------------------------------------------- Item
Item(id, key, value, exp) == [ID |-> id, Key |-> key, Value |-> value, expiresAt |-> exp]

ZeroItem == Item("", "", "", 0)

IsZero(t) == t = 0

Unix(t) == t \div TicksPerSec

\* ------------------------------------------------------- treeItem, btree
TreeItem(key, value) == [Key |-> key, Value |-> value]

Less(a, b) == StrOrd[a.Key] < StrOrd[b.Key]

Same(a, b) == ~Less(a, b) /\ ~Less(b, a)

\* the tree, as the ascending sequence of its items
Ascend(tree) == tree

\* mutant: an item is inserted next to the item it is the same as
InsertBeside(tree, ti) ==
  LET below == SelectSeq(tree, LAMBDA x : Less(x, ti))
      above == SelectSeq(tree, LAMBDA x : ~Less(x, ti))
  IN  below \o <<ti>> \o above

\* mutant: a new item goes to the end of the tree
ReplaceOrInsertAtEnd(tree, ti) ==
  IF \E i \in 1..Len(tree) : Same(tree[i], ti)
    THEN [i \in 1..Len(tree) |-> IF Same(tree[i], ti) THEN ti ELSE tree[i]]
    ELSE Append(tree, ti)

ReplaceOrInsert(tree, ti) ==
  IF \E i \in 1..Len(tree) : Same(tree[i], ti)
    THEN [i \in 1..Len(tree) |-> IF Same(tree[i], ti) THEN ti ELSE tree[i]]
    ELSE LET below == SelectSeq(tree, LAMBDA x : Less(x, ti))
             above == SelectSeq(tree, LAMBDA x : Less(ti, x))
         IN  below \o <<ti>> \o above

DeleteFrom(tree, ti) == SelectSeq(tree, LAMBDA x : Less(x, ti))

Delete(tree, ti) == SelectSeq(tree, LAMBDA x : ~Same(x, ti))

Has(tree, key) == \E i \in 1..Len(tree) : tree[i].Key = key

\* ------------------------------------------------------------- results
Res(err, found, items) == [err |-> err, found |-> found, items |-> items]

NoRes == Res("", FALSE, <<>>)

NoReq ==
  [op |-> "none", key |-> "", item |-> ZeroItem, d |-> 0, from |-> "", ph |-> "", cb |-> "nil"]

NoLast == [op |-> "none", key |-> "", res |-> NoRes, want |-> <<>>, ph |-> ""]

NoMark == [op |-> "none", key |-> "", item |-> ZeroItem, setSince |-> FALSE, delSince |-> FALSE]

NoCur == [set |-> FALSE, item |-> ZeroItem, d |-> 0, reput |-> FALSE,
          userDel |-> FALSE, anyDel |-> FALSE, cbN |-> 0, cbEarly |-> FALSE, cbOther |-> FALSE,
          cbBy |-> "nil", late |-> FALSE]

\* a caller that holds no *Item of a list
NoHeld == [key |-> "", ids |-> {}]

\* no earlier value of itemExpireCb is left to read
NoStale == [old |-> {}, by |-> ""]

VARIABLES
  inited,        \* store.kv != nil and store.ls != nil
  crashed,       \* the process has panicked
  now,           \* time.Now(), in sweep intervals
  kval,          \* kvStore.kval: key -> <<>> (absent) or <<item>>
  forExpiry,     \* kvStore.forExpiry
  setClosed,     \* close(s.set) was called
  itemExpireCb,  \* kvStore.itemExpireCb
  cbStale,       \* the earlier values of itemExpireCb that the worker may still read
  tick,          \* ticker.C holds a tick
  wpc, wreq,     \* the scalar worker: its position and the request it holds
  bgDel,         \* delItem goroutines started by sweeps, per key, waiting to send
  cbRun,         \* callback goroutines started by sweeps and not returned, up to MaxCb
  ktree,         \* listStore.ktree: list key -> <<>> (absent) or <<tree>>
  listChangeCb,  \* listStore.listChangeCb
  held,          \* per caller: the list and the ids of the *Item of its last ListGet
                 \* that still are the objects in the tree
  lwpc, lwreq,   \* the list worker
  closePc,       \* the goroutine running store.Close
  cpc, creq,     \* the callers: position and pending request
  cobj,          \* the Item object a caller passed to its last Put
  nops,          \* facade operations started so far
  last,          \* history: the last completed operation of a caller and its result
  mark,          \* history: the last write of a caller accepted by the scalar worker
  cur,           \* history, per key: the last accepted set and what happened since
  pushed,        \* history, per list: the (id, value) of the accepted pushes not deleted since
  created,       \* history: the list keys of the accepted pushes
  lcbCalls,      \* the invocations of listStore.listChangeCb, in order
  replaced       \* history, per callback slot: a registration has replaced a callback

vars == <<inited, crashed, now, kval, forExpiry, setClosed, itemExpireCb, cbStale, tick, wpc, wreq,
          bgDel, cbRun, ktree, listChangeCb, held, lwpc, lwreq, closePc, cpc, creq, cobj, nops,
          last, mark, cur, pushed, created, lcbCalls, replaced>>

kvVars == <<kval, forExpiry, setClosed, itemExpireCb, cbStale, tick, wpc, wreq, bgDel, cbRun>>
lsVars == <<ktree, listChangeCb, held, lwpc, lwreq, lcbCalls>>
histVars == <<mark, cur, pushed, created, replaced>>

\* ----------------------------------------------------------------- Init
\* NewStore: both engines nil, nothing running
Init ==
  /\ inited = FALSE
  /\ crashed = FALSE
  /\ now = StartTime
  /\ kval = [k \in Keys |-> <<>>]
  /\ forExpiry = <<>>
  /\ setClosed = FALSE
  /\ itemExpireCb = "nil"
  /\ cbStale = NoStale
  /\ tick = FALSE
  /\ wpc = "none"
  /\ wreq = NoReq
  /\ bgDel = [k \in Keys |-> 0]
  /\ cbRun = 0
  /\ ktree = [k \in ListKeys |-> <<>>]
  /\ listChangeCb = "nil"
  /\ held = [c \in Callers |-> NoHeld]
  /\ lwpc = "none"
  /\ lwreq = NoReq
  /\ closePc = "idle"
  /\ cpc = [c \in Callers |-> "idle"]
  /\ creq = [c \in Callers |-> NoReq]
  /\ cobj = [c \in Callers |-> ZeroItem]
  /\ nops = 0
  /\ last = [c \in Callers |-> NoLast]
  /\ mark = [c \in Callers |-> NoMark]
  /\ cur = [k \in Keys |-> NoCur]
  /\ pushed = [k \in ListKeys |-> {}]
  /\ created = {}
  /\ lcbCalls = <<>>
  /\ replaced = [item |-> FALSE, list |-> FALSE]

\* ------------------------------------------------------------ the callers
Idle(c) == cpc[c] = "idle" /\ nops < MaxOps /\ ~crashed

\* history: where in the store's life a call is made, and the list-change
\* callback registered then
Phase ==
  IF ~inited THEN "pre" ELSE IF closePc = "done" /\ setClosed THEN "closed" ELSE "run"

Req(op, key, item, d, from) ==
  [op |-> op, key |-> key, item |-> item, d |-> d, from |-> from, ph |-> Phase,
   cb |-> listChangeCb]

\* the call returns res to its caller
Return(c, op, key, res, want) ==
  /\ cpc' = [cpc EXCEPT ![c] = "idle"]
  /\ creq' = [creq EXCEPT ![c] = NoReq]
  /\ last' = [last EXCEPT ![c] =
                [op |-> op, key |-> key, res |-> res, want |-> want,
                 ph |-> IF creq[c].op = "none" THEN Phase ELSE creq[c].ph]]

\* the call blocks in its select, sending req
Send(c, pc, req) ==
  /\ cpc' = [cpc EXCEPT ![c] = pc]
  /\ creq' = [creq EXCEPT ![c] = req]
  /\ last' = last

ErrNotInit == Res("ERROR: Init must be called first", FALSE, <<>>)

\* mutant: the facade without its test of s.kv
KvNilSkipped == FALSE

\* s.kv == nil, s.ls == nil
KvNil == ~inited

LsNil == ~inited

\* store.Init
StoreInit ==
  /\ ~inited /\ ~crashed
  /\ inited' = TRUE
  /\ kval' = [k \in Keys |-> <<>>]
  /\ forExpiry' = <<>>
  /\ setClosed' = FALSE
  /\ itemExpireCb' = "nil"
  /\ cbStale' = NoStale
  /\ tick' = FALSE
  /\ wpc' = "select"
  /\ wreq' = NoReq
  /\ ktree' = [k \in ListKeys |-> <<>>]
  /\ listChangeCb' = "nil"
  /\ lwpc' = "select"
  /\ lwreq' = NoReq
  /\ UNCHANGED <<crashed, now, bgDel, cbRun, held, closePc, cpc, creq, cobj, nops, last, histVars, lcbCalls>>

\* mutant: put tests the key only
InvalidItemKeyOnly(item) == item.Key = ""

\* len(item.Key) == 0 || len(item.ID) == 0
InvalidItem(item) == item.Key = "" \/ item.ID = ""

\* len(key) == 0 || len(value.ID) == 0
InvalidInput(key, value) == key = "" \/ value.ID = ""

\* history: the arguments of a call, when one of them is nil or empty
Args(key, item, isNil) ==
  IF isNil \/ key = "" \/ item.ID = ""
    THEN <<[key |-> key, item |-> item, isNil |-> isNil]>>
    ELSE <<>>

\* store.Put, kvStore.put with item == nil
PutNil(c) ==
  /\ Idle(c)
  /\ nops' = nops + 1
  /\ Return(c, "put", "", IF KvNil THEN ErrNotInit ELSE Res("ERROR: nil item", FALSE, <<>>),
            Args("", ZeroItem, TRUE))
  /\ UNCHANGED <<inited, crashed, now, kvVars, lsVars, closePc, cobj, histVars>>

\* store.Put, kvStore.put up to the select
PutCall(c, item, d) ==
  /\ Idle(c)
  /\ nops' = nops + 1
  /\ IF KvNil
       THEN /\ Return(c, "put", item.Key, ErrNotInit, Args(item.Key, item, FALSE))
            /\ UNCHANGED cobj
       ELSE IF InvalidItem(item)
                 THEN /\ Return(c, "put", item.Key, Res("invalid item", FALSE, <<>>),
                                Args(item.Key, item, FALSE))
                      /\ UNCHANGED cobj
                 ELSE LET stamped == IF d > 0 THEN [item EXCEPT !.expiresAt = now + d] ELSE item
                      IN  /\ cobj' = [cobj EXCEPT ![c] = stamped]
                          /\ Send(c, "put_send", Req("put", stamped.Key, stamped, d, c))
  /\ UNCHANGED <<inited, crashed, now, kvVars, lsVars, closePc, mark, cur, pushed, created, replaced>>

\* history: a set or del of key was accepted from somebody else than c
Touch(c, key, isSet) ==
  [x \in Callers |->
     IF x # c /\ mark[x].key = key
       THEN IF isSet THEN [mark[x] EXCEPT !.setSince = TRUE]
                     ELSE [mark[x] EXCEPT !.delSince = TRUE]
       ELSE mark[x]]

PresentUnexpired(key) ==
  /\ kval[key] # <<>>
  /\ ~IsZero(kval[key][1].expiresAt)
  /\ now < kval[key][1].expiresAt

\* a receive from caller c orders what c wrote to itemExpireCb before the reads
\* of the worker that follow: the values written before are no longer read
Synced(c) == IF cbStale.by = c THEN NoStale ELSE cbStale

\* the worker receives from s.set; put returns nil
PutAccept(c) ==
  /\ ~crashed
  /\ cpc[c] = "put_send" /\ wpc = "select" /\ ~setClosed
  /\ wpc' = "set"
  /\ wreq' = creq[c]
  /\ Return(c, "put", creq[c].key, Res("", FALSE, <<>>), <<>>)
  /\ mark' = [Touch(c, creq[c].key, TRUE) EXCEPT ![c] =
                [op |-> "put", key |-> creq[c].key, item |-> creq[c].item,
                 setSince |-> FALSE, delSince |-> FALSE]]
  /\ cur' = [cur EXCEPT ![creq[c].key] =
               [NoCur EXCEPT !.set = TRUE, !.item = creq[c].item, !.d = creq[c].d,
                             !.reput = /\ PresentUnexpired(creq[c].key)
                                       /\ creq[c].item.expiresAt > kval[creq[c].key][1].expiresAt,
                             !.late = bgDel[creq[c].key] > 0]]
  /\ cbStale' = Synced(c)
  /\ UNCHANGED <<inited, crashed, now, kval, forExpiry, setClosed, itemExpireCb, tick, bgDel, cbRun,
                 lsVars, closePc, cobj, nops, pushed, created, replaced>>

\* a send on the closed s.set panics
PutPanic(c) ==
  /\ ~crashed
  /\ cpc[c] = "put_send" /\ setClosed
  /\ crashed' = TRUE
  /\ Return(c, "put", creq[c].key, Res("panic: send on closed channel", FALSE, <<>>), <<>>)
  /\ UNCHANGED <<inited, now, kvVars, lsVars, closePc, cobj, nops, histVars>>

\* store.Get, kvStore.getItem up to the first select
GetCall(c, key) ==
  /\ Idle(c)
  /\ nops' = nops + 1
  /\ IF KvNil
       THEN /\ Return(c, "get", key, ErrNotInit, <<>>)
       ELSE /\ Send(c, "get_send", Req("get", key, ZeroItem, 0, c))
  /\ UNCHANGED <<inited, crashed, now, kvVars, lsVars, closePc, cobj, mark, cur, pushed, created, replaced>>

GetAccept(c) ==
  /\ ~crashed
  /\ cpc[c] = "get_send" /\ wpc = "select"
  /\ wpc' = "get"
  /\ wreq' = creq[c]
  /\ cpc' = [cpc EXCEPT ![c] = "get_wait"]
  /\ cbStale' = Synced(c)
  /\ UNCHANGED <<inited, crashed, now, kval, forExpiry, setClosed, itemExpireCb, tick, bgDel, cbRun,
                 lsVars, closePc, creq, cobj, nops, last, histVars>>

\* mutant: delItem also refuses a key that has no entry
InvalidKeyOrAbsent(key) == key = "" \/ kval[key] = <<>>

\* len(key) == 0
InvalidKey(key) == key = ""

\* store.Del, kvStore.delItem up to the select
DelCall(c, key) ==
  /\ Idle(c)
  /\ nops' = nops + 1
  /\ IF KvNil
       THEN /\ Return(c, "del", key, ErrNotInit, <<>>)
       ELSE IF InvalidKey(key)
                 THEN Return(c, "del", key, Res("Invalid key", FALSE, <<>>), <<>>)
                 ELSE Send(c, "del_send", Req("del", key, ZeroItem, 0, c))
  /\ UNCHANGED <<inited, crashed, now, kvVars, lsVars, closePc, cobj, mark, cur, pushed, created, replaced>>

DelAccept(c) ==
  /\ ~crashed
  /\ cpc[c] = "del_send" /\ wpc = "select"
  /\ wpc' = "del"
  /\ wreq' = creq[c]
  /\ cpc' = [cpc EXCEPT ![c] = "del_wait"]
  /\ mark' = [Touch(c, creq[c].key, FALSE) EXCEPT ![c] =
                [op |-> "del", key |-> creq[c].key, item |-> ZeroItem,
                 setSince |-> FALSE, delSince |-> FALSE]]
  /\ cur' = [cur EXCEPT ![creq[c].key].userDel = TRUE, ![creq[c].key].anyDel = TRUE]
  /\ cbStale' = Synced(c)
  /\ UNCHANGED <<inited, crashed, now, kval, forExpiry, setClosed, itemExpireCb, tick, bgDel, cbRun,
                 lsVars, closePc, creq, cobj, nops, last, pushed, created, replaced>>

\* the 3s timer of getItem/delItem wins: the worker has returned
SendTimeout(c) ==
  /\ ~crashed
  /\ cpc[c] \in {"get_send", "del_send"} /\ wpc = "dead"
  /\ Return(c, creq[c].op, creq[c].key,
            Res(IF creq[c].op = "get" THEN "Get channel timeout" ELSE "Del channel timeout",
                FALSE, <<>>), <<>>)
  /\ UNCHANGED <<inited, crashed, now, kvVars, lsVars, closePc, cobj, nops, histVars>>

\* store.OnItemDidExpire, kvStore.onItemDidExpire
OnItemDidExpire(c, cb) ==
  /\ Idle(c)
  /\ nops' = nops + 1
  /\ itemExpireCb' = IF KvNil THEN itemExpireCb ELSE cb
  /\ cbStale' = IF KvNil THEN cbStale
                         ELSE [old |-> (cbStale.old \cup {itemExpireCb}) \ {cb}, by |-> c]
  /\ replaced' = IF KvNil THEN replaced
                          ELSE [replaced EXCEPT !.item = @ \/ itemExpireCb \notin {"nil", cb}]
  /\ Return(c, "onexpire", "", NoRes, <<cb>>)
  /\ UNCHANGED <<inited, crashed, now, kval, forExpiry, setClosed, tick, wpc, wreq, bgDel, cbRun,
                 lsVars, closePc, cobj, mark, cur, pushed, created>>

\* ------------------------------------------------------ the scalar worker
\* mutant: the entry of a key that is present is kept
SetKvalIfAbsent(item) ==
  IF kval[item.Key] = <<>> THEN [kval EXCEPT ![item.Key] = <<item>>] ELSE kval

\* s.kval[r.item.Key] = r.item
SetKval(item) == [kval EXCEPT ![item.Key] = <<item>>]

\* the item goes into the forExpiry tree when its expiresAt is set
SetForExpiry(item) ==
  IF ~IsZero(item.expiresAt)
    THEN ReplaceOrInsert(forExpiry, TreeItem(item.Key, item))
    ELSE forExpiry

\* case r, ok := <-s.set, with ok
WSet ==
  /\ ~crashed
  /\ wpc = "set"
  /\ kval' = SetKval(wreq.item)
  /\ forExpiry' = SetForExpiry(wreq.item)
  /\ wpc' = "select"
  /\ wreq' = NoReq
  /\ UNCHANGED <<inited, crashed, now, setClosed, itemExpireCb, cbStale, tick, bgDel, cbRun, lsVars,
                 closePc, cpc, creq, cobj, nops, last, histVars>>

\* case r, ok := <-s.set, with !ok: the loop returns and the ticker is stopped
WClosed ==
  /\ ~crashed
  /\ wpc = "select" /\ setClosed
  /\ wpc' = "dead"
  /\ tick' = FALSE
  /\ UNCHANGED <<inited, crashed, now, kval, forExpiry, setClosed, itemExpireCb, cbStale, wreq, bgDel, cbRun,
                 lsVars, closePc, cpc, creq, cobj, nops, last, histVars>>

\* mutant: the get case answers only for a key that has an entry
WGetFoundOnly ==
  /\ ~crashed
  /\ wpc = "get"
  /\ kval[wreq.key] # <<>>
  /\ Return(wreq.from, "get", wreq.key, Res("", TRUE, kval[wreq.key]), <<>>)
  /\ wpc' = "select"
  /\ wreq' = NoReq
  /\ UNCHANGED <<inited, crashed, now, kval, forExpiry, setClosed, itemExpireCb, cbStale, tick, bgDel, cbRun,
                 lsVars, closePc, cobj, nops, histVars>>

\* case r := <-s.get: the answer goes to r.resp or r.notFound, where getItem waits
WGet ==
  /\ ~crashed
  /\ wpc = "get"
  /\ Return(wreq.from, "get", wreq.key,
            IF kval[wreq.key] # <<>> THEN Res("", TRUE, kval[wreq.key])
                                     ELSE Res("", FALSE, <<>>), <<>>)
  /\ wpc' = "select"
  /\ wreq' = NoReq
  /\ UNCHANGED <<inited, crashed, now, kval, forExpiry, setClosed, itemExpireCb, cbStale, tick, bgDel, cbRun,
                 lsVars, closePc, cobj, nops, histVars>>

\* kvStore.deleteItem
DeleteItemTree(key) ==
  IF kval[key] # <<>> /\ ~IsZero(kval[key][1].expiresAt)
    THEN Delete(forExpiry, TreeItem(kval[key][1].Key, kval[key][1]))
    ELSE forExpiry

\* mutant: every entry with the id of the entry of key is deleted
DeleteItemKvalById(key) ==
  [k \in Keys |->
     IF k = key \/ (kval[key] # <<>> /\ kval[k] # <<>> /\ kval[k][1].ID = kval[key][1].ID)
       THEN <<>> ELSE kval[k]]

DeleteItemKvalInsideIf(key) ==
  IF kval[key] # <<>> /\ ~IsZero(kval[key][1].expiresAt)
    THEN [kval EXCEPT ![key] = <<>>]
    ELSE kval

DeleteItemKval(key) == [kval EXCEPT ![key] = <<>>]

\* case r := <-s.del: deleteItem, then the answer to r.resp, where delItem waits
WDel ==
  /\ ~crashed
  /\ wpc = "del"
  /\ forExpiry' = DeleteItemTree(wreq.key)
  /\ kval' = DeleteItemKval(wreq.key)
  /\ IF wreq.from \in Callers
       THEN Return(wreq.from, "del", wreq.key, Res("", FALSE, <<>>), <<>>)
       ELSE UNCHANGED <<cpc, creq, last>>
  /\ wpc' = "select"
  /\ wreq' = NoReq
  /\ UNCHANGED <<inited, crashed, now, setClosed, itemExpireCb, cbStale, tick, bgDel, cbRun,
                 lsVars, closePc, cobj, nops, histVars>>

\* kvStore.checkExpiredItems: the tree items the sweep finds expired
Expired(tree, n) ==
  {i \in 1..Len(tree) : Unix(n) - Unix(tree[i].Value.expiresAt) >= 0}

ExpiredKeys(tree, n) == {tree[i].Key : i \in Expired(tree, n)}

ExpiredValue(tree, key) == (CHOOSE i \in 1..Len(tree) : tree[i].Key = key)

Inc2(n) == IF n < 2 THEN n + 1 ELSE 2

\* mutant: the sweep starts no delItem
GoDelItemNone(keys) == bgDel

\* go s.delItem(key), for every expired key
GoDelItem(keys) == [k \in Keys |-> IF k \in keys THEN bgDel[k] + 1 ELSE bgDel[k]]

\* the values a read of s.itemExpireCb by the worker can return: the field is
\* written by the callers and read by the worker with nothing to order the two
ReadItemExpireCb == {itemExpireCb} \cup cbStale.old

\* mutant: the worker calls the callbacks itself and waits for them
CallbacksInline(n) == IF n > 0 THEN "callback" ELSE "select"

\* go func(k, v) { s.itemExpireCb(&v) }(key, *i): where the worker is after it
\* has started n callbacks, each in a goroutine of its own
GoCallbacks(n) == "select"

\* the callback goroutines running once n more are started; beyond MaxCb they
\* are not told apart
Started(n) == IF cbRun + n < MaxCb THEN cbRun + n ELSE MaxCb

\* case <-ticker.C: checkExpiredItems starts a callback goroutine and a delItem
\* goroutine for every expired tree item
Sweep ==
  /\ ~crashed
  /\ wpc = "select" /\ tick
  /\ LET keys == ExpiredKeys(Ascend(forExpiry), now)
     IN  /\ \A k \in keys : bgDel[k] < MaxBg
         /\ bgDel' = GoDelItem(keys)
         /\ \E cb \in [keys -> ReadItemExpireCb] :
              /\ cur' = [k \in Keys |->
                           IF k \notin keys THEN cur[k]
                           ELSE IF cb[k] = "nil" THEN [cur[k] EXCEPT !.cbBy = "nil"]
                           ELSE LET v == forExpiry[ExpiredValue(forExpiry, k)].Value
                                IN  [cur[k] EXCEPT
                                       !.cbN = Inc2(@),
                                       !.cbEarly = @ \/ now < v.expiresAt,
                                       !.cbOther = @ \/ kval[k] # <<v>>,
                                       !.cbBy = cb[k]]]
              /\ LET n == Cardinality({k \in keys : cb[k] # "nil"})
                 IN  /\ cbRun' = Started(n)
                     /\ wpc' = GoCallbacks(n)
  /\ tick' = FALSE
  /\ UNCHANGED <<inited, crashed, now, kval, forExpiry, setClosed, itemExpireCb, cbStale, wreq,
                 lsVars, closePc, cpc, creq, cobj, nops, last, mark, pushed, created, replaced>>

\* a callback returns and its goroutine ends
CallbackReturn ==
  /\ ~crashed
  /\ cbRun > 0
  /\ cbRun' = cbRun - 1
  /\ UNCHANGED <<inited, crashed, now, kval, forExpiry, setClosed, itemExpireCb, cbStale, tick, wpc, wreq,
                 bgDel, lsVars, closePc, cpc, creq, cobj, nops, last, histVars>>

\* the worker receives, from s.del, the request of a delItem goroutine of a sweep
BgDelAccept(k) ==
  /\ ~crashed
  /\ bgDel[k] > 0 /\ wpc = "select"
  /\ bgDel' = [bgDel EXCEPT ![k] = @ - 1]
  /\ wpc' = "del"
  /\ wreq' = Req("del", k, ZeroItem, 0, "bg")
  /\ mark' = Touch("bg", k, FALSE)
  /\ cur' = [cur EXCEPT ![k].anyDel = TRUE]
  /\ UNCHANGED <<inited, crashed, now, kval, forExpiry, setClosed, itemExpireCb, cbStale, tick, cbRun,
                 lsVars, closePc, cpc, creq, cobj, nops, last, pushed, created, replaced>>

\* the 3s timer of a delItem goroutine of a sweep wins: the worker has returned
BgDelTimeout(k) ==
  /\ ~crashed
  /\ bgDel[k] > 0 /\ wpc = "dead"
  /\ bgDel' = [bgDel EXCEPT ![k] = @ - 1]
  /\ UNCHANGED <<inited, crashed, now, kval, forExpiry, setClosed, itemExpireCb, cbStale, tick, wpc, wreq, cbRun,
                 lsVars, closePc, cpc, creq, cobj, nops, last, histVars>>

\* 500ms pass; the ticker of a running worker puts a tick into ticker.C
Tick ==
  /\ ~crashed
  /\ now < MaxTime
  /\ now' = now + SweepInterval
  /\ tick' = IF wpc \in {"none", "dead"} THEN tick ELSE TRUE
  /\ UNCHANGED <<inited, crashed, kval, forExpiry, setClosed, itemExpireCb, cbStale, wpc, wreq, bgDel, cbRun,
                 lsVars, closePc, cpc, creq, cobj, nops, last, histVars>>

\* the clock of the model stops at MaxTime, the ticker does not
TickLate ==
  /\ ~crashed
  /\ now = MaxTime
  /\ wpc \notin {"none", "dead"} /\ ~tick
  /\ tick' = TRUE
  /\ UNCHANGED <<inited, crashed, now, kval, forExpiry, setClosed, itemExpireCb, cbStale, wpc, wreq, bgDel, cbRun,
                 lsVars, closePc, cpc, creq, cobj, nops, last, histVars>>

\* ------------------------------------------------------------ store.Close
\* store.Close: with both engines nil it returns at once
CloseCall ==
  /\ ~crashed
  /\ closePc = "idle"
  /\ closePc' = IF inited THEN "ls" ELSE "done"
  /\ UNCHANGED <<inited, crashed, now, kvVars, lsVars, cpc, creq, cobj, nops, last, histVars>>

\* listStore.closeStore: s.close <- true, received by the list worker, which returns
CloseList ==
  /\ ~crashed
  /\ closePc = "ls" /\ lwpc = "select"
  /\ lwpc' = "dead"
  /\ closePc' = "kv"
  /\ UNCHANGED <<inited, crashed, now, kvVars, ktree, held, listChangeCb, lcbCalls, lwreq,
                 cpc, creq, cobj, nops, last, histVars>>

\* kvStore.closeStore: close(s.set)
CloseKV ==
  /\ ~crashed
  /\ closePc = "kv"
  /\ setClosed' = TRUE
  /\ closePc' = "done"
  /\ UNCHANGED <<inited, crashed, now, kval, forExpiry, itemExpireCb, cbStale, tick, wpc, wreq, bgDel, cbRun,
                 lsVars, cpc, creq, cobj, nops, last, histVars>>

\* --------------------------------------------------------- the list engine
\* store.ListPush, listStore.listPush with value == nil
ListPushNil(c, key) ==
  /\ Idle(c)
  /\ nops' = nops + 1
  /\ Return(c, "lpush", key, IF LsNil THEN ErrNotInit ELSE Res("ERROR: nil value", FALSE, <<>>),
            Args(key, ZeroItem, TRUE))
  /\ UNCHANGED <<inited, crashed, now, kvVars, lsVars, closePc, cobj, histVars>>

\* store.ListDel, listStore.listDel with value == nil
ListDelNil(c, key) ==
  /\ Idle(c)
  /\ nops' = nops + 1
  /\ Return(c, "ldel", key, IF LsNil THEN ErrNotInit ELSE Res("ERROR: nil value", FALSE, <<>>),
            Args(key, ZeroItem, TRUE))
  /\ UNCHANGED <<inited, crashed, now, kvVars, lsVars, closePc, cobj, histVars>>

\* listStore.getTree: the tree of key, made and stored when there is none
GetTree(key) == IF ktree[key] = <<>> THEN <<>> ELSE ktree[key][1]

\* store.ListPush, listStore.listPush up to the select
ListPushCall(c, key, item) ==
  /\ Idle(c)
  /\ nops' = nops + 1
  /\ IF LsNil
       THEN /\ Return(c, "lpush", key, ErrNotInit, Args(key, item, FALSE))
       ELSE IF InvalidInput(key, item)
                 THEN Return(c, "lpush", key, Res("invalid input", FALSE, <<>>),
                             Args(key, item, FALSE))
                 ELSE Send(c, "lpush_send", Req("lpush", key, item, 0, c))
  /\ UNCHANGED <<inited, crashed, now, kvVars, lsVars, closePc, cobj, mark, cur, pushed, created, replaced>>

\* the list worker receives from s.lpush; listPush returns nil
ListPushAccept(c) ==
  /\ ~crashed
  /\ cpc[c] = "lpush_send" /\ lwpc = "select"
  /\ lwpc' = "lpush"
  /\ lwreq' = creq[c]
  /\ Return(c, "lpush", creq[c].key, Res("", FALSE, <<>>),
            IF Has(GetTree(creq[c].key), creq[c].item.ID)
              THEN <<[key |-> creq[c].key, item |-> creq[c].item, isNil |-> FALSE, had |-> TRUE]>>
              ELSE <<>>)
  /\ pushed' = [pushed EXCEPT ![creq[c].key] =
                  {e \in @ : e.ID # creq[c].item.ID}
                    \cup {[ID |-> creq[c].item.ID, Value |-> creq[c].item.Value]}]
  /\ created' = created \cup {creq[c].key}
  /\ UNCHANGED <<inited, crashed, now, kvVars, ktree, held, listChangeCb, lcbCalls, closePc, cobj, nops,
                 mark, cur, replaced>>

\* the tree of key holds another object for id, or none: the *Item a caller
\* got for it before is no longer the one in the tree
Unhold(key, id) ==
  [c \in Callers |->
     IF held[c].key = key THEN [held[c] EXCEPT !.ids = @ \ {id}] ELSE held[c]]

\* case r := <-s.lpush
LWPush ==
  /\ ~crashed
  /\ lwpc = "lpush"
  /\ ktree' = [ktree EXCEPT ![lwreq.key] =
                 <<ReplaceOrInsert(GetTree(lwreq.key), TreeItem(lwreq.item.ID, lwreq.item))>>]
  /\ held' = Unhold(lwreq.key, lwreq.item.ID)
  /\ lwpc' = "select"
  /\ lwreq' = NoReq
  /\ UNCHANGED <<inited, crashed, now, kvVars, listChangeCb, lcbCalls, closePc, cpc, creq, cobj, nops,
                 last, histVars>>

\* store.ListGet, listStore.listGet up to the first select
ListGetCall(c, key) ==
  /\ Idle(c)
  /\ nops' = nops + 1
  /\ IF LsNil
       THEN /\ Return(c, "lget", key, ErrNotInit, <<>>)
       ELSE /\ Send(c, "lget_send", Req("lget", key, ZeroItem, 0, c))
  /\ UNCHANGED <<inited, crashed, now, kvVars, lsVars, closePc, cobj, mark, cur, pushed, created, replaced>>

ListGetAccept(c) ==
  /\ ~crashed
  /\ cpc[c] = "lget_send" /\ lwpc = "select"
  /\ lwpc' = "lget"
  /\ lwreq' = creq[c]
  /\ cpc' = [cpc EXCEPT ![c] = "lget_wait"]
  /\ UNCHANGED <<inited, crashed, now, kvVars, ktree, held, listChangeCb, lcbCalls, closePc, creq, cobj, nops,
                 last, histVars>>

\* the items of a tree, in ascending order
Items(tree) == [i \in 1..Len(Ascend(tree)) |-> Ascend(tree)[i].Value]

\* case r := <-s.lget: the answer goes to r.resp or r.notFound, where listGet waits
LWGet ==
  /\ ~crashed
  /\ lwpc = "lget"
  /\ Return(lwreq.from, "lget", lwreq.key,
            IF ktree[lwreq.key] = <<>> THEN Res("", FALSE, <<>>)
                                       ELSE Res("", TRUE, Items(GetTree(lwreq.key))),
            <<pushed[lwreq.key], lwreq.key \in created>>)
  /\ held' = [held EXCEPT ![lwreq.from] =
                [key |-> lwreq.key,
                 ids |-> {GetTree(lwreq.key)[i].Key : i \in 1..Len(GetTree(lwreq.key))}]]
  /\ lwpc' = "select"
  /\ lwreq' = NoReq
  /\ UNCHANGED <<inited, crashed, now, kvVars, ktree, listChangeCb, lcbCalls, closePc, cobj, nops,
                 histVars>>

\* store.ListDel, listStore.listDel up to the select
ListDelCall(c, key, item) ==
  /\ Idle(c)
  /\ nops' = nops + 1
  /\ IF LsNil
       THEN /\ Return(c, "ldel", key, ErrNotInit, Args(key, item, FALSE))
       ELSE IF InvalidInput(key, item)
                 THEN Return(c, "ldel", key, Res("invalid input", FALSE, <<>>),
                             Args(key, item, FALSE))
                 ELSE Send(c, "ldel_send", Req("ldel", key, item, 0, c))
  /\ UNCHANGED <<inited, crashed, now, kvVars, lsVars, closePc, cobj, mark, cur, pushed, created, replaced>>

ListDelAccept(c) ==
  /\ ~crashed
  /\ cpc[c] = "ldel_send" /\ lwpc = "select"
  /\ lwpc' = "ldel"
  /\ lwreq' = creq[c]
  /\ cpc' = [cpc EXCEPT ![c] = "ldel_wait"]
  /\ pushed' = [pushed EXCEPT ![creq[c].key] = {e \in @ : e.ID # creq[c].item.ID}]
  /\ UNCHANGED <<inited, crashed, now, kvVars, ktree, held, listChangeCb, lcbCalls, closePc, creq, cobj, nops,
                 last, mark, cur, created, replaced>>

\* case r := <-s.ldel: the answer goes to r.resp, where listDel waits
LWDel ==
  /\ ~crashed
  /\ lwpc = "ldel"
  /\ ktree' = [ktree EXCEPT ![lwreq.key] =
                 <<Delete(GetTree(lwreq.key), TreeItem(lwreq.item.ID, lwreq.item))>>]
  /\ held' = Unhold(lwreq.key, lwreq.item.ID)
  /\ Return(lwreq.from, "ldel", lwreq.key, Res("", FALSE, <<>>),
            <<[key |-> lwreq.key, item |-> lwreq.item, isNil |-> FALSE,
               had |-> Has(GetTree(lwreq.key), lwreq.item.ID)]>>)
  /\ lwpc' = "select"
  /\ lwreq' = NoReq
  /\ UNCHANGED <<inited, crashed, now, kvVars, listChangeCb, lcbCalls, closePc, cobj, nops, histVars>>

\* the tree with the Value of the Item of id set to v
SetValue(tree, id, v) ==
  [i \in 1..Len(tree) |->
     IF tree[i].Key = id THEN [tree[i] EXCEPT !.Value.Value = v] ELSE tree[i]]

\* the caller writes v to the Value of an Item of its last call: the Item it
\* passed to Put (its own object, of which put sent a copy), the Item it passed
\* to ListPush (listPush sent a copy), the Item that Get returned (&i, a copy of
\* the entry) or the Item of id in the slice that ListGet returned (the
\* a.(treeItem).Value of the tree)
Mutate(c, id, v) ==
  /\ ~crashed
  /\ cpc[c] = "idle"
  /\ last[c].res.err = ""
  /\ \/ /\ last[c].op = "put"
        /\ cobj' = [cobj EXCEPT ![c].Value = v]
        /\ UNCHANGED ktree
     \/ /\ last[c].op = "lpush" \/ (last[c].op = "get" /\ last[c].res.found)
        /\ UNCHANGED <<cobj, ktree>>
     \/ /\ last[c].op = "lget"
        /\ \E i \in 1..Len(last[c].res.items) : last[c].res.items[i].ID = id
        /\ ktree' = IF id \in held[c].ids
                      THEN [ktree EXCEPT ![held[c].key] = <<SetValue(@[1], id, v)>>]
                      ELSE ktree
        /\ UNCHANGED cobj
  /\ last' = [last EXCEPT ![c].op = "mutate"]
  /\ UNCHANGED <<inited, crashed, now, kvVars, listChangeCb, held, lwpc, lwreq, lcbCalls, closePc,
                 cpc, creq, nops, histVars>>

\* the 3s timer of listPush/listGet/listDel wins: the list worker has returned
ListSendTimeout(c) ==
  /\ ~crashed
  /\ cpc[c] \in {"lpush_send", "lget_send", "ldel_send"} /\ lwpc = "dead"
  /\ Return(c, creq[c].op, creq[c].key,
            Res(CASE creq[c].op = "lpush" -> "ERROR: channel timeout"
                  [] creq[c].op = "lget" -> "Get channel timeout"
                  [] OTHER -> "Del channel timeout", FALSE, <<>>), <<>>)
  /\ UNCHANGED <<inited, crashed, now, kvVars, lsVars, closePc, cobj, nops, histVars>>

\* store.OnListDidChange, listStore.onListDidChange
OnListDidChange(c, cb) ==
  /\ Idle(c)
  /\ nops' = nops + 1
  /\ listChangeCb' = IF LsNil THEN listChangeCb ELSE cb
  /\ replaced' = IF LsNil THEN replaced
                          ELSE [replaced EXCEPT !.list = @ \/ listChangeCb \notin {"nil", cb}]
  /\ Return(c, "onchange", "", NoRes, <<cb>>)
  /\ UNCHANGED <<inited, crashed, now, kvVars, ktree, held, lwpc, lwreq, lcbCalls, closePc, cobj,
                 mark, cur, pushed, created>>

\* ------------------------------------------------------- specifications
\* Put with a new Item, or with the Item object of the caller's last Put (which
\* differs from a new one only when d <= 0 leaves its expiresAt as it is)
PutInputs(c, K, I, T) ==
  {<<Item(id, k, v, 0), d>> : id \in I, k \in K, v \in Values, d \in T}
    \cup {<<cobj[c], d>> : d \in {t \in T : t <= 0 /\ cobj[c].expiresAt # 0}}

ListItems(I, V) == {Item(id, "", v, 0) : id \in I, v \in V}

ScalarCalls(K, I, T) ==
  \E c \in Callers :
    \/ \E in \in PutInputs(c, K, I[c], T) : PutCall(c, in[1], in[2])
    \/ PutAccept(c)
    \/ \E k \in K : GetCall(c, k)
    \/ GetAccept(c)
    \/ \E k \in K : DelCall(c, k)
    \/ DelAccept(c)
    \/ \E cb \in Cbs : OnItemDidExpire(c, cb)

ScalarWorker ==
  \/ WSet \/ WGet \/ WDel \/ Sweep \/ Tick
  \/ \E k \in Keys : BgDelAccept(k)

ScalarClosed ==
  \/ WClosed
  \/ \E c \in Callers : PutPanic(c) \/ SendTimeout(c)
  \/ \E k \in Keys : BgDelTimeout(k)

ListCalls(K, I, V) ==
  \E c \in Callers :
    \/ \E k \in K, item \in ListItems(I, V) : ListPushCall(c, k, item)
    \/ ListPushAccept(c)
    \/ \E k \in K : ListGetCall(c, k)
    \/ ListGetAccept(c)
    \/ \E k \in K, item \in ListItems(I, {"x"}) : ListDelCall(c, k, item)
    \/ ListDelAccept(c)

ListWorker == LWPush \/ LWGet \/ LWDel

ListCallbacks == \E c \in Callers, cb \in Cbs : OnListDidChange(c, cb)

ListClosed == \E c \in Callers : ListSendTimeout(c)

StoreClose == CloseCall \/ CloseList \/ CloseKV

\* the scalar engine of a store that is not closed
NextKV == StoreInit \/ ScalarCalls(Keys, CallerIds, Ttls) \/ ScalarWorker

SpecKV == Init /\ [][NextKV]_vars

\* the scalar engine with one key, its ticker running for ever, under the fairness
\* of the Go scheduler (a goroutine that can run does) and of select (a case that
\* is ready again and again is chosen)
NextKVFair ==
  \/ StoreInit \/ ScalarCalls({"k1"}, CallerIds, Ttls) \/ ScalarWorker \/ TickLate

WorkerStep == WSet \/ WGet \/ WDel

Clock == Tick \/ TickLate

SpecKVFair ==
  /\ Init /\ [][NextKVFair]_vars
  /\ WF_vars(Clock)
  /\ WF_vars(WorkerStep)
  /\ SF_vars(Sweep)
  /\ SF_vars(BgDelAccept("k1"))

\* the scalar engine with a callback registered, caller c1 using the store and
\* every callback either blocking, returning, or calling the store as caller c2
CallbackCalls ==
  /\ cbRun > 0
  /\ \/ \E d \in {0, 1} : PutCall("c2", Item("b", "k1", "x", 0), d)
     \/ GetCall("c2", "k1")
     \/ DelCall("c2", "k1")

CallbackServed == PutAccept("c2") \/ GetAccept("c2") \/ DelAccept("c2")

CallbackReturns == cpc["c2"] = "idle" /\ CallbackReturn

UserCalls ==
  \/ OnItemDidExpire("c1", "cb1")
  \/ \E d \in {0, 1} : PutCall("c1", Item("a", "k1", "x", 0), d)
  \/ GetCall("c1", "k1")
  \/ DelCall("c1", "k1")

UserServed == PutAccept("c1") \/ GetAccept("c1") \/ DelAccept("c1")

NextCallback ==
  \/ StoreInit \/ UserCalls \/ UserServed
  \/ CallbackCalls \/ CallbackServed \/ CallbackReturns
  \/ WSet \/ WGet \/ WDel \/ Sweep \/ Tick \/ TickLate \/ BgDelAccept("k1")

\* the callbacks are under no fairness: one may block for ever, in its own code
\* or in a call of the store
SpecCallback ==
  /\ Init /\ [][NextCallback]_vars
  /\ WF_vars(Clock)
  /\ WF_vars(WorkerStep)
  /\ SF_vars(Sweep)
  /\ SF_vars(BgDelAccept("k1"))
  /\ SF_vars(UserServed)

\* callers that write to the Items they passed to the store or got from it
AliasCalls ==
  \E c \in Callers :
    \/ \E d \in {0, 1} : PutCall(c, Item("a", "k1", "x", 0), d)
    \/ PutAccept(c)
    \/ GetCall(c, "k1")
    \/ GetAccept(c)
    \/ \E id \in {"a", "b"} : ListPushCall(c, "one", Item(id, "", "x", 0))
    \/ ListPushAccept(c)
    \/ ListGetCall(c, "one")
    \/ ListGetAccept(c)
    \/ \E id \in {"a", "b"} : Mutate(c, id, "z")

NextAlias == StoreInit \/ AliasCalls \/ WSet \/ WGet \/ LWPush \/ LWGet

SpecAlias == Init /\ [][NextAlias]_vars

\* both engines of a store that is not closed, under the fairness of the Go
\* scheduler: a worker that holds a request goes on with it
NextServe ==
  \/ StoreInit
  \/ ScalarCalls({"k1"}, CallerIds, {0, 1}) \/ ScalarWorker \/ TickLate
  \/ ListCalls({"one"}, {"a"}, {"x"}) \/ ListWorker

SpecServe ==
  /\ Init /\ [][NextServe]_vars
  /\ WF_vars(WorkerStep)
  /\ WF_vars(ListWorker)

\* the list engine of a store that is not closed
NextList ==
  StoreInit \/ ListCalls(ListKeys, ListIds, ListValues) \/ ListCallbacks \/ ListWorker

SpecList == Init /\ [][NextList]_vars

\* calls with arguments the store rejects among calls it serves: a nil item, an
\* empty id, an empty key
ArgCalls ==
  \E c \in Callers :
    \/ \E id \in {"a", ""}, k \in {"k1", ""}, d \in {0, 1} : PutCall(c, Item(id, k, "x", 0), d)
    \/ PutNil(c)
    \/ PutAccept(c)
    \/ GetCall(c, "k1")
    \/ GetAccept(c)
    \/ \E k \in {"k1", ""} : DelCall(c, k)
    \/ DelAccept(c)
    \/ \E k \in {"one", ""}, item \in ListItems({"a", ""}, {"x"}) :
          ListPushCall(c, k, item) \/ ListDelCall(c, k, item)
    \/ \E k \in {"one", ""} : ListPushNil(c, k) \/ ListDelNil(c, k)
    \/ ListPushAccept(c)
    \/ ListDelAccept(c)
    \/ ListGetCall(c, "one")
    \/ ListGetAccept(c)

NextArgs == StoreInit \/ ArgCalls \/ ScalarWorker \/ ListWorker

SpecArgs == Init /\ [][NextArgs]_vars

\* the two callback slots, each registered more than once, with entries that
\* expire and a list that changes
CbCalls ==
  \E c \in Callers :
    \/ \E cb \in {"cb1", "cb2"} : OnItemDidExpire(c, cb) \/ OnListDidChange(c, cb)
    \/ PutCall(c, Item("a", "k1", "x", 0), 1)
    \/ PutAccept(c)
    \/ \E v \in ListValues : ListPushCall(c, "one", Item("a", "", v, 0))
    \/ ListPushAccept(c)
    \/ ListDelCall(c, "one", Item("a", "", "x", 0))
    \/ ListDelAccept(c)

NextCb ==
  \/ StoreInit \/ CbCalls
  \/ WSet \/ WDel \/ Sweep \/ Tick \/ BgDelAccept("k1")
  \/ LWPush \/ LWDel

SpecCb == Init /\ [][NextCb]_vars

\* the life of a store, from NewStore over Init to Close, with one key and one list
Next ==
  \/ StoreInit \/ StoreClose
  \/ ScalarCalls({"k1"}, [c \in Callers |-> {"a"}], {0, 1}) \/ ScalarWorker \/ ScalarClosed
  \/ ListCalls({"one"}, {"a"}, {"x"}) \/ ListWorker \/ ListClosed

Spec == Init /\ [][Next]_vars

\* ---------------------------------------------------------------- claims
\* the worker holds a set of key k that it has not stored yet
MidSet(k) == wpc = "set" /\ wreq.item.Key = k

\* caller c has got the answer of a Get of the key of its last accepted write
GotAfter(c, op) ==
  /\ cpc[c] = "idle"
  /\ last[c].op = "get"
  /\ mark[c].op = op
  /\ mark[c].key = last[c].key

\* C1: a Get of k by the caller whose Put of v to k was accepted, with no other
\* Put of k, no Del of k and no expiry-driven delete of k accepted in between,
\* returns found=true, err=nil and an item with the id and value of v
C1_ReadYourWrites ==
  \A c \in Callers :
    (GotAfter(c, "put") /\ ~mark[c].setSince /\ ~mark[c].delSince)
      => /\ last[c].res.err = ""
         /\ last[c].res.found
         /\ Len(last[c].res.items) = 1
         /\ last[c].res.items[1].ID = mark[c].item.ID
         /\ last[c].res.items[1].Value = mark[c].item.Value

\* a caller read its own write back while the other caller was writing too
C1_Witness ==
  \E c \in Callers :
    /\ GotAfter(c, "put") /\ ~mark[c].setSince /\ ~mark[c].delSince
    /\ last[c].res.found
    /\ \E x \in Callers \ {c} : mark[x].op = "put"

\* C2: a Get of k by the caller whose Del of k has returned, with no Put of k
\* accepted in between, returns (nil, found=false, err=nil)
C2_DelThenGet ==
  \A c \in Callers :
    (GotAfter(c, "del") /\ ~mark[c].setSince)
      => last[c].res = Res("", FALSE, <<>>)

\* the deleted key had been put with an expiry
C2_Witness ==
  \E c \in Callers :
    /\ GotAfter(c, "del") /\ ~mark[c].setSince
    /\ cur[last[c].key].set /\ cur[last[c].key].d > 0
    /\ cur[last[c].key].userDel

\* a Put on the initialised store returned an error
PutFailed(c) == last[c].op = "put" /\ last[c].ph = "run" /\ last[c].res.err # ""

\* C3: concurrent Puts to one key all return nil, and once the worker has stored
\* what it received the entry of the key is the item it received last
C3_LastWriteWins ==
  /\ \A c \in Callers : ~PutFailed(c)
  /\ \A k \in Keys :
       (cur[k].set /\ ~cur[k].anyDel /\ ~MidSet(k)) => kval[k] = <<cur[k].item>>

\* both callers have put different items to the same key
C3_Witness ==
  \E k \in Keys :
    /\ \A c \in Callers : mark[c].op = "put" /\ mark[c].key = k /\ last[c].res.err = ""
    /\ mark["c1"].item # mark["c2"].item
    /\ cur[k].set /\ ~cur[k].anyDel /\ ~MidSet(k)
    /\ kval[k] = <<cur[k].item>>

\* the entry of k is past its expiresAt
ExpiredPresent(k) ==
  /\ kval[k] # <<>>
  /\ ~IsZero(kval[k][1].expiresAt)
  /\ now >= kval[k][1].expiresAt

\* C4: an entry that is past its expiresAt becomes not-found, unless it is re-put
C4_ExpiredIsEvicted ==
  ExpiredPresent("k1") ~> (kval["k1"] = <<>> \/ MidSet("k1"))

\* an entry was put with a ttl, passed its expiresAt and was deleted by the delItem
\* goroutine of a sweep
C4_Witness ==
  /\ cur["k1"].set /\ cur["k1"].d > 0 /\ ~cur["k1"].userDel /\ cur["k1"].anyDel
  /\ now >= cur["k1"].item.expiresAt
  /\ wpc = "select"
  /\ kval["k1"] = <<>>

\* C5: the expire callback is invoked at most once for a stored entry, with
\* that entry, and never for an entry that has not expired
C5_CallbackOnce ==
  \A k \in Keys :
    /\ cur[k].cbN <= 1
    /\ ~cur[k].cbEarly
    /\ ~cur[k].cbOther

\* C6: a key re-put, before its expiry, with a later expiresAt stays found and
\* is not reported expired as long as the new expiresAt is not reached
C6_ReputResetsExpiry ==
  \A k \in Keys :
    (cur[k].reput /\ ~cur[k].userDel /\ ~MidSet(k) /\ now < cur[k].item.expiresAt)
      => /\ kval[k] = <<cur[k].item>>
         /\ cur[k].cbN = 0

\* C7: an entry stored by a Put with ttl <= 0 is not in the expiry index, is not
\* reported expired and is not deleted by a sweep
C7_NoTtlNeverExpires ==
  \A k \in Keys :
    (cur[k].set /\ cur[k].d <= 0 /\ ~cur[k].userDel /\ ~MidSet(k))
      => /\ kval[k] = <<cur[k].item>>
         /\ ~Has(forExpiry, k)
         /\ cur[k].cbN = 0

FacadeOps == {"put", "get", "del", "lpush", "lget", "ldel"}

NothingStored ==
  /\ \A k \in Keys : kval[k] = <<>>
  /\ forExpiry = <<>>
  /\ \A k \in ListKeys : ktree[k] = <<>>

\* C8: before Init every Put, Get, Del, ListPush, ListGet and ListDel returns the
\* not-initialised error at once and leaves both engines untouched, and the Init
\* that follows starts with an empty scalar store and no lists
C8_BeforeInit ==
  /\ [](~inited =>
          /\ NothingStored
          /\ wpc = "none" /\ lwpc = "none"
          /\ \A c \in Callers :
               /\ cpc[c] = "idle"
               /\ last[c].op \in FacadeOps => last[c].res = ErrNotInit)
  /\ [][(~inited /\ inited') => NothingStored']_vars

\* Init has run after a Put and a list operation were refused
C8_Witness ==
  /\ inited
  /\ NothingStored
  /\ \E c, x \in Callers :
       /\ last[c].ph = "pre" /\ last[c].op = "put" /\ last[c].res.err # ""
       /\ last[x].ph = "pre" /\ last[x].op \in {"lpush", "lget", "ldel"}
       /\ last[x].res.err # ""

\* C9: an operation invoked after Close has returned gets the not-initialised
\* error as an error value
C9_AfterClose ==
  /\ ~crashed
  /\ \A c \in Callers :
       (cpc[c] = "idle" /\ last[c].ph = "closed" /\ last[c].op \in FacadeOps)
         => last[c].res = ErrNotInit

IdsIncrease(items) ==
  \A i, j \in 1..Len(items) : i < j => StrOrd[items[i].ID] < StrOrd[items[j].ID]

IdValues(items) == {[ID |-> items[i].ID, Value |-> items[i].Value] : i \in 1..Len(items)}

\* C10: ListGet returns the items in strictly increasing order of id, and they are
\* the ids pushed and not deleted since, each with the value of its last push
C10_ListGetSorted ==
  \A c \in Callers :
    (cpc[c] = "idle" /\ last[c].op = "lget" /\ last[c].res.err = "")
      => /\ IdsIncrease(last[c].res.items)
         /\ IdValues(last[c].res.items) = last[c].want[1]
         /\ ~last[c].res.found => last[c].res.items = <<>>

\* a ListGet returned two items or more
C10_Witness ==
  \E c \in Callers :
    /\ cpc[c] = "idle" /\ last[c].op = "lget" /\ last[c].res.found
    /\ Len(last[c].res.items) >= 2

\* the list worker serves the ListDel it holds
LWDelStep == lwpc = "ldel" /\ lwpc' = "select"

\* the list worker serves the ListPush it holds
LWPushStep == lwpc = "lpush" /\ lwpc' = "select"

WithoutId(items, id) == SelectSeq(items, LAMBDA i : i.ID # id)

\* C11: a ListDel of an id that is in list k returns nil and leaves list k as the
\* sequence it was without the entry of that id, and every other list as it was
C11_ListDelRemoves ==
  [][(LWDelStep /\ Has(GetTree(lwreq.key), lwreq.item.ID))
       => /\ ktree'[lwreq.key] # <<>>
          /\ Items(ktree'[lwreq.key][1]) = WithoutId(Items(GetTree(lwreq.key)), lwreq.item.ID)
          /\ \A k \in ListKeys \ {lwreq.key} : ktree'[k] = ktree[k]
          /\ last'[lwreq.from].res = Res("", FALSE, <<>>)]_vars

\* a ListDel has removed an entry of a list that keeps another entry
C11_Witness ==
  \E c \in Callers :
    /\ cpc[c] = "idle" /\ last[c].op = "ldel" /\ last[c].res.err = ""
    /\ last[c].want # <<>> /\ last[c].want[1].had
    /\ ktree[last[c].key] # <<>>
    /\ Len(ktree[last[c].key][1]) >= 1
    /\ ~Has(ktree[last[c].key][1], last[c].want[1].item.ID)

\* C12: a ListGet reports found=true exactly when a ListPush to its list key was
\* accepted before, and found=false comes with no items
C12_FoundIffPushed ==
  \A c \in Callers :
    (cpc[c] = "idle" /\ last[c].op = "lget" /\ last[c].res.err = "")
      => /\ last[c].res.found <=> last[c].want[2]
         /\ ~last[c].res.found => last[c].res.items = <<>>

\* C13: a ListDel of a list that was never created, or of an id that is not in
\* the list, returns nil and leaves every list, and whether it exists, as it was
C13_ListDelNoop ==
  [][(LWDelStep /\ ~Has(GetTree(lwreq.key), lwreq.item.ID))
       => /\ ktree' = ktree
          /\ last'[lwreq.from].res = Res("", FALSE, <<>>)]_vars

\* the list-change callback was registered when the request the list worker holds
\* was made, and still is
Registered == lwreq.cb # "nil" /\ listChangeCb = lwreq.cb

\* one more invocation of the list-change callback, for list k as it is after the step
Notified(k) ==
  /\ ktree'[k] # <<>>
  /\ lcbCalls' = Append(lcbCalls, [cb |-> listChangeCb, key |-> k,
                                   items |-> Items(ktree'[k][1])])

\* the value stored in tree under id
StoredValue(tree, id) == tree[CHOOSE i \in 1..Len(tree) : tree[i].Key = id].Value.Value

\* C14: with a list-change callback registered, a ListPush of an id that is not
\* in list k invokes the callback once, with k and the list of k after the push
C14_PushNewNotifies ==
  [][(LWPushStep /\ Registered /\ ~Has(GetTree(lwreq.key), lwreq.item.ID))
       => Notified(lwreq.key)]_vars

\* C15: a ListPush of an id that is in list k invokes the list-change callback
\* once when the pushed value differs from the stored one, and not at all when
\* it is the same
C15_RepushNotifiesOnChange ==
  [][(LWPushStep /\ Registered /\ Has(GetTree(lwreq.key), lwreq.item.ID))
       => IF StoredValue(GetTree(lwreq.key), lwreq.item.ID) = lwreq.item.Value
            THEN lcbCalls' = lcbCalls
            ELSE Notified(lwreq.key)]_vars

\* C16: a ListDel invokes the list-change callback once, with k and the list that
\* remains, when it removes an entry, and not at all when the id is not in the list
C16_DelNotifiesOnRemoval ==
  [][(LWDelStep /\ Registered)
       => IF Has(GetTree(lwreq.key), lwreq.item.ID)
            THEN Notified(lwreq.key)
            ELSE lcbCalls' = lcbCalls]_vars

\* a request with a nil item, an empty key or an empty id
BadReq(r) ==
  \/ r.op = "put" /\ (r.item.Key = "" \/ r.item.ID = "")
  \/ r.op \in {"lpush", "ldel"} /\ (r.key = "" \/ r.item.ID = "")

\* the arguments of the call that caller c made last are invalid
BadArgs(l) ==
  /\ l.op \in {"put", "lpush", "ldel"}
  /\ l.want # <<>>
  /\ \/ l.want[1].isNil
     \/ l.want[1].item.ID = ""
     \/ l.want[1].key = ""

\* C17: a Put, ListPush or ListDel with a nil item, an empty key or an empty id
\* returns an error in the step of the call, no request with such arguments is
\* ever sent to or held by a worker, and the step changes neither the scalar
\* map, the expiry index, a list nor the callbacks invoked
C17_InvalidInputRejected ==
  /\ [](/\ \A c \in Callers : ~BadReq(creq[c])
        /\ ~BadReq(wreq) /\ ~BadReq(lwreq)
        /\ \A c \in Callers : BadArgs(last[c]) => last[c].res.err # "")
  /\ [][\A c \in Callers :
          (last'[c] # last[c] /\ BadArgs(last'[c]))
            => UNCHANGED <<kval, forExpiry, ktree, wpc, wreq, lwpc, lwreq, bgDel, cur, lcbCalls>>]_vars

\* on the initialised store a Put with an empty id and a ListPush with a nil item
\* were rejected, with an entry in the scalar map
C17_Witness ==
  /\ \E c, x \in Callers :
       /\ last[c].ph = "run" /\ last[c].op = "put" /\ BadArgs(last[c])
       /\ ~last[c].want[1].isNil /\ last[c].want[1].item.ID = "" /\ last[c].key # ""
       /\ last[x].ph = "run" /\ last[x].op = "lpush" /\ BadArgs(last[x])
       /\ last[x].want[1].isNil
  /\ kval["k1"] # <<>>

\* a Del that caller c made on the initialised store has returned
DelDone(c) == cpc[c] = "idle" /\ last[c].op = "del" /\ last[c].ph = "run"

\* the scalar worker serves the delete it holds
WDelStep == wpc = "del" /\ wpc' = "select"

AbsentDelChangesNothing ==
  [][(WDelStep /\ kval[wreq.key] = <<>>) => UNCHANGED <<kval, forExpiry>>]_vars

\* C18 as stated: every Del on the initialised store with its worker running
\* returns nil, whatever the key, and the delete of a key without entry changes
\* neither the scalar map nor the expiry index
C18_DelAlwaysNil ==
  /\ [](\A c \in Callers : DelDone(c) => last[c].res = Res("", FALSE, <<>>))
  /\ AbsentDelChangesNothing

\* C18, amended: every Del of a non-empty key on the initialised store with its
\* worker running returns nil, a Del of the empty key returns an error, and the
\* delete of a key without entry changes neither the scalar map nor the expiry index
C18_DelNonEmptyKeyNil ==
  /\ [](\A c \in Callers :
          DelDone(c) => IF last[c].key = "" THEN last[c].res.err # ""
                                           ELSE last[c].res = Res("", FALSE, <<>>))
  /\ AbsentDelChangesNothing

\* both callers have deleted, with success, a key that had been put, and the key
\* has no entry
C18_Witness ==
  /\ cur["k1"].set /\ cur["k1"].userDel
  /\ kval["k1"] = <<>>
  /\ wpc = "select"
  /\ \A c \in Callers : DelDone(c) /\ last[c].key = "k1" /\ last[c].res.err = ""

\* a call made before Close had returned ended in a panic
PanicWhileServed(c) ==
  /\ last[c].ph = "run"
  /\ last[c].res.err = "panic: send on closed channel"

\* C19: when the one Close of an initialised store has returned the list worker
\* has left its loop and the scalar worker was told to, no call that was made
\* before Close returned takes the process down, and a Close before Init starts
\* and stops nothing
C19_CloseTerminates ==
  /\ (closePc = "done" /\ setClosed) => lwpc = "dead"
  /\ (closePc = "done" /\ ~inited) => (wpc = "none" /\ lwpc = "none" /\ ~setClosed)
  /\ \A c \in Callers : ~PanicWhileServed(c)

\* the scalar worker runs checkExpiredItems
SweepStep == wpc = "select" /\ wpc' = "select" /\ tick /\ ~tick'

\* the list worker changes the list of the request it holds
ListChangeStep == (LWPushStep \/ LWDelStep) /\ ktree'[lwreq.key] # ktree[lwreq.key]

\* C20: once a registration has replaced the callback of a slot, every expiry
\* reported, and every list change made, after the last registration returned
\* invokes the callback registered last, and no other
C20_LastRegistrationWins ==
  /\ [][(SweepStep /\ replaced.item)
          => \A k \in ExpiredKeys(forExpiry, now) : cur'[k].cbBy = itemExpireCb]_vars
  /\ [][(ListChangeStep /\ replaced.list /\ lwreq.cb = listChangeCb)
          => Notified(lwreq.key)]_vars

\* the expiresAt that the expiry index records for key k
IndexedExpiry(k) == forExpiry[ExpiredValue(forExpiry, k)].Value.expiresAt

\* C21: whenever the scalar worker is at its select, the keys of the expiry
\* index are the keys whose entry has an expiresAt, and the index records for
\* each the expiresAt of its entry
C21_ExpiryIndexInSync ==
  wpc = "select" =>
    \A k \in Keys :
      /\ Has(forExpiry, k) <=> (kval[k] # <<>> /\ ~IsZero(kval[k][1].expiresAt))
      /\ Has(forExpiry, k) => IndexedExpiry(k) = kval[k][1].expiresAt

\* C22: a sweep starts the delete of a key, and reports it to the callback, only
\* when the expiresAt recorded for the key is not later than the time of the sweep
C22_ExpiredOnlyAtOrAfter ==
  [][SweepStep =>
       \A k \in Keys :
         (bgDel'[k] > bgDel[k] \/ cur'[k].cbN > cur[k].cbN)
           => (Has(forExpiry, k) /\ IndexedExpiry(k) <= now)]_vars

\* the ids of a tree, in its order
Ids(tree) == [i \in 1..Len(tree) |-> tree[i].Key]

\* C23: in every list every id occurs once, and the list worker serving a
\* ListPush of an id that is in the list puts the pushed item in the place of
\* the entry with that id: the list has the same ids in the same order, and
\* every other entry is the one it was
C23_IdOncePerList ==
  /\ [](\A k \in ListKeys : \A i, j \in 1..Len(GetTree(k)) :
          GetTree(k)[i].Key = GetTree(k)[j].Key => i = j)
  /\ [][(LWPushStep /\ Has(GetTree(lwreq.key), lwreq.item.ID))
         => /\ Ids(ktree'[lwreq.key][1]) = Ids(GetTree(lwreq.key))
            /\ \A i \in 1..Len(GetTree(lwreq.key)) :
                 ktree'[lwreq.key][1][i].Value =
                   IF GetTree(lwreq.key)[i].Key = lwreq.item.ID
                     THEN lwreq.item ELSE GetTree(lwreq.key)[i].Value]_vars

\* the list worker has served the ListPush of an id that was in its list with
\* another value, and the list holds the pushed value next to another entry
C23_Witness ==
  \E c \in Callers :
    /\ cpc[c] = "idle" /\ last[c].op = "lpush" /\ last[c].want # <<>> /\ last[c].want[1].had
    /\ lwpc = "select"
    /\ LET tree == GetTree(last[c].key)
       IN  /\ Len(tree) >= 2
           /\ \E i \in 1..Len(tree) :
                /\ tree[i].Key = last[c].want[1].item.ID
                /\ tree[i].Value = last[c].want[1].item
                /\ tree[i].Value.Value = "y"
           /\ \A e \in pushed[last[c].key] : e.ID = last[c].want[1].item.ID => e.Value = "y"

\* the scalar worker answers the Get it holds
WGetStep == wpc = "get" /\ wpc' = "select"

\* C24: the entry of a key changes only in the step in which the scalar worker
\* serves a set or a delete of that very key, whatever the ids of the items, and
\* a Get of a key whose last accepted Put was followed by no accepted delete of
\* that key, by a caller or by a sweep, is answered found=true with that item
C24_KeyAloneIdentifies ==
  /\ [][\A k \in Keys :
          kval'[k] # kval[k]
            => \/ wpc = "set" /\ wreq.item.Key = k
               \/ wpc = "del" /\ wreq.key = k]_vars
  /\ [][(WGetStep /\ cur[wreq.key].set /\ ~cur[wreq.key].anyDel)
         => last'[wreq.from].res = Res("", TRUE, <<cur[wreq.key].item>>)]_vars

\* a Get of one key was answered found=true with an item that has the id of the
\* item put to the other key, whose entry a delete has removed
C24_Witness ==
  \E c \in Callers, k, o \in Keys :
    /\ k # o
    /\ cpc[c] = "idle" /\ last[c].op = "get" /\ last[c].key = k /\ last[c].res.found
    /\ cur[k].set /\ ~cur[k].anyDel /\ kval[k] = <<cur[k].item>>
    /\ cur[o].set /\ cur[o].anyDel /\ kval[o] = <<>>
    /\ cur[o].item.ID = cur[k].item.ID

TimeoutErrs == {"ERROR: channel timeout", "Get channel timeout", "Del channel timeout"}

\* C25: a call made on the initialised store, before, while or after Close runs,
\* comes back to its caller with nil or with a timeout error: no call takes the
\* process down
C25_UnservedCallTimesOut ==
  \A c \in Callers :
    (cpc[c] = "idle" /\ last[c].op \in FacadeOps /\ last[c].ph \in {"run", "closed"})
      => last[c].res.err \in {""} \cup TimeoutErrs

\* C26: while a callback goroutine runs, blocked or calling the store, every
\* call of the user is accepted and answered, the worker comes back to its
\* select and every tick of the ticker is followed by its sweep
C26_CallbackNeverStalls ==
  /\ (cbRun > 0 /\ cpc["c1"] # "idle") ~> (cpc["c1"] = "idle")
  /\ (cbRun > 0 /\ wpc # "select") ~> (wpc = "select")
  /\ (cbRun > 0 /\ tick) ~> ~tick

\* with the callback of the expired entry still running, the delete the sweep
\* started was served and a Get of the user made after it was answered not-found
C26_Witness ==
  /\ cbRun > 0
  /\ cur["k1"].set /\ cur["k1"].cbN > 0 /\ cur["k1"].anyDel /\ ~cur["k1"].userDel
  /\ cpc["c1"] = "idle" /\ last["c1"].op = "get" /\ last["c1"].res = Res("", FALSE, <<>>)
  /\ wpc = "select"

\* a caller writes to an Item of its last call
MutateStep == \E c \in Callers : last'[c].op = "mutate" /\ last[c].op # "mutate"

\* C27: a write of a caller to the Item it passed to Put or ListPush, to the Item
\* Get returned or to an Item of the slice ListGet returned changes neither the
\* scalar map nor a list, which are what later Get and ListGet calls return
C27_ItemsAreCopies ==
  [][MutateStep => UNCHANGED <<kval, forExpiry, ktree>>]_vars

\* C28: the delete that a sweep started for a key before the worker accepted a
\* Put of that key leaves the entry of that Put in place
C28_ExpiryDeleteSparesNewEntry ==
  [][(/\ WDelStep /\ wreq.from = "bg"
      /\ cur[wreq.key].set /\ cur[wreq.key].late
      /\ kval[wreq.key] = <<cur[wreq.key].item>>)
       => kval'[wreq.key] = kval[wreq.key]]_vars

\* caller c waits for the answer to a request that a worker has received
Waits(c) == cpc[c] \in {"get_wait", "del_wait", "lget_wait", "ldel_wait"}

\* the worker that received the request of caller c holds it
HeldBy(c) ==
  \/ cpc[c] = "get_wait" /\ wpc = "get" /\ wreq.from = c
  \/ cpc[c] = "del_wait" /\ wpc = "del" /\ wreq.from = c
  \/ cpc[c] = "lget_wait" /\ lwpc = "lget" /\ lwreq.from = c
  \/ cpc[c] = "ldel_wait" /\ lwpc = "ldel" /\ lwreq.from = c

\* C29: a caller whose Get, Del, ListGet or ListDel request was received waits
\* for the worker that holds that request and gets its answer, and a worker that
\* holds a request, of a caller or of a delete started by a sweep, comes back to
\* its select
C29_AcceptedIsAnswered ==
  /\ [](\A c \in Callers : Waits(c) => HeldBy(c))
  /\ \A c \in Callers : Waits(c) ~> (cpc[c] = "idle")
  /\ (wpc \in {"set", "get", "del"}) ~> (wpc = "select")
  /\ (lwpc \in {"lpush", "lget", "ldel"}) ~> (lwpc = "select")

\* a Get of a key without entry and a ListDel were answered, after a sweep had
\* started a delete and with the other worker serving a request
C29_Witness ==
  \E c, x \in Callers :
    /\ cpc[c] = "idle" /\ last[c].op = "get" /\ last[c].res = Res("", FALSE, <<>>)
    /\ cur["k1"].set /\ cur["k1"].anyDel /\ ~cur["k1"].userDel
    /\ cpc[x] = "idle" /\ last[x].op = "ldel" /\ last[x].res.err = ""
    /\ wpc = "select" /\ lwpc = "select"

\* the last call of caller c was an OnItemDidExpire made before Init
RegisteredBeforeInit(c) ==
  cpc[c] = "idle" /\ last[c].op = "onexpire" /\ last[c].ph = "pre"

\* C30: with a callback passed to OnItemDidExpire before Init, every expiry that
\* a sweep reports after Init invokes that callback (OnListDidChange has the
\* same test of its engine, and Init the same effect on it)
C30_EarlyRegistrationCounts ==
  [][SweepStep =>
       \A c \in Callers, k \in Keys :
         (RegisteredBeforeInit(c) /\ bgDel'[k] > bgDel[k])
           => cur'[k].cbBy = last[c].want[1]]_vars

====
